---- MODULE Spec2Model ----
(***************************************************************************)
(* Retrieval core of regchat: the complexity scorer (Complexity.py) and    *)
(* the multi-namespace search of search_utils.py (namespace selection,     *)
(* per-namespace fetch, deduplication, score sort, floor/fill/truncate).   *)
(*                                                                         *)
(* Strings are sequences of one-character strings, so that split, lower,   *)
(* substring search and the word-boundary regex are computed, not assumed. *)
(* Similarity scores are integers (a score s stands for s / MaxScore).     *)
(***************************************************************************)
EXTENDS Integers, Sequences, FiniteSets, TLC

VARIABLES
    query,                  \* the prompt handed to the scorer / search
    index,                  \* per namespace, the matches index.query returns
    pc,                     \* position of the request
    complexity_score,       \* Complexity.calculate_complexity_score(query)
    max_results,            \* search parameter in force
    results_per_namespace,  \* per-namespace floor in force
    namespaces_to_search,   \* the set the fetch loop iterates
    fetch_order,            \* the order in which that set was iterated
    all_matches,            \* the deduplicated pool after the score sort
    results,                \* the list search_regulations returned
    faults,                 \* which collaborators raised during the request
    query_embedding,        \* length of the list generate_embedding returned
    calls,                  \* the calls made to the collaborators, in order
    display,                \* what main showed for the request
    embedding,              \* the list handed to pad_embedding
    target_dim,             \* the dimension it is padded or cut to
    padded,                 \* what pad_embedding did: raised, or the list returned
    vectors,                \* the vectors handed to upsert_vectors
    batch_size,             \* its batch_size argument
    batch_start,            \* the loop variable i: offset of the current batch
    retry_count,            \* failed attempts for the current batch
    upsert_calls,           \* the index.upsert calls made, in order
    successful_uploads,     \* vectors verified after their upload
    json_chunks,            \* the chunks loaded from a JSON file
    messages,               \* st.session_state.messages
    gpt_response,           \* what process_user_query returned as answer
    sentences,              \* the sentences create_chunks walks through
    chunks                  \* the chunks create_chunks has emitted

\* the state of a chat request
searchVars == <<query, index, complexity_score, max_results,
                results_per_namespace, namespaces_to_search, fetch_order,
                all_matches, results, faults, query_embedding, calls, display>>

\* the state of the padding of one embedding
padVars == <<embedding, target_dim, padded>>

\* the state of upsert_vectors
upsertVars == <<vectors, batch_size, batch_start, retry_count, upsert_calls,
                successful_uploads>>

\* the state of the chat loop
chatVars == <<messages, gpt_response>>

\* the state of the upload scripts, the chat history and the chunker
pipelineVars == <<padVars, upsertVars, json_chunks, chatVars, sentences, chunks>>

vars == <<pc, searchVars, pipelineVars>>

\* no embedding is being padded
PadIdle ==
    /\ embedding = <<>>
    /\ target_dim = 0
    /\ padded = [raised |-> FALSE, value |-> <<>>]

\* upsert_vectors is not running
UpsertIdle ==
    /\ vectors = <<>>
    /\ batch_size = 0
    /\ batch_start = 0
    /\ retry_count = 0
    /\ upsert_calls = <<>>
    /\ successful_uploads = 0

\* no file is being processed
IngestIdle == json_chunks = <<>>

\* Python's None as an answer
None == "<None>"

\* no chat session
ChatIdle == messages = <<>> /\ gpt_response = None

\* no page is being chunked
ChunkIdle == sentences = <<>> /\ chunks = <<>>

\* the upload scripts, the chat history and the chunker are not running
PipelineIdle == PadIdle /\ UpsertIdle /\ IngestIdle /\ ChatIdle /\ ChunkIdle

(***************************************************************************)
(* Bounds of the model                                                     *)
(***************************************************************************)
\* number of pieces a scored query is assembled from
MaxPieces == 4

(***************************************************************************)
(* Characters and strings                                                  *)
(***************************************************************************)
UpperChars == <<"A", "B", "C", "D", "E", "F", "G", "H", "I", "J", "K", "L", "M",
                "N", "O", "P", "Q", "R", "S", "T", "U", "V", "W", "X", "Y", "Z">>
LowerChars == <<"a", "b", "c", "d", "e", "f", "g", "h", "i", "j", "k", "l", "m",
                "n", "o", "p", "q", "r", "s", "t", "u", "v", "w", "x", "y", "z">>
DigitChars == {"0", "1", "2", "3", "4", "5", "6", "7", "8", "9"}

Range(s) == {s[i] : i \in DOMAIN s}

\* str.lower() on one character
LowerChar(c) ==
    IF \E i \in DOMAIN UpperChars : UpperChars[i] = c
    THEN LowerChars[CHOOSE i \in DOMAIN UpperChars : UpperChars[i] = c]
    ELSE c

\* str.lower()
lower(s) == [i \in DOMAIN s |-> LowerChar(s[i])]

\* the characters str.split() (no argument) separates on
IsSpace(c) == c \in {" ", "\t", "\n"}

\* the regex class \w
IsWordChar(c) == c \in Range(UpperChars) \cup Range(LowerChars) \cup DigitChars \cup {"_"}

\* str.split(): maximal runs of non-whitespace, no empty words
RECURSIVE SplitFrom(_, _, _)
SplitFrom(s, i, cur) ==
    IF i > Len(s)
    THEN IF cur = <<>> THEN <<>> ELSE <<cur>>
    ELSE IF IsSpace(s[i])
         THEN IF cur = <<>>
              THEN SplitFrom(s, i + 1, <<>>)
              ELSE <<cur>> \o SplitFrom(s, i + 1, <<>>)
         ELSE SplitFrom(s, i + 1, Append(cur, s[i]))

split(s) == SplitFrom(s, 1, <<>>)

\* sub in s
Contains(s, sub) ==
    \E i \in 1..Len(s) : i + Len(sub) - 1 <= Len(s)
                         /\ SubSeq(s, i, i + Len(sub) - 1) = sub

\* s.startswith(prefix)
startswith(s, prefix) ==
    Len(prefix) <= Len(s) /\ SubSeq(s, 1, Len(prefix)) = prefix

(***************************************************************************)
(* Complexity.py                                                           *)
(***************************************************************************)
keywords ==
    { <<"c", "o", "m", "p", "a", "r", "e">>,
      <<"c", "r", "o", "s", "s", "-", "j", "u", "r", "i", "s", "d", "i", "c",
        "t", "i", "o", "n", "a", "l">>,
      <<"a", "u", "d", "i", "t">>,
      <<"f", "r", "a", "m", "e", "w", "o", "r", "k">>,
      <<"g", "u", "i", "d", "e", "l", "i", "n", "e", "s">> }

StrAnd == <<"a", "n", "d">>
StrComma == <<",">>
StrHow == <<"h", "o", "w">>
StrWhy == <<"w", "h", "y">>

\* a plausible slip: the question-type bonus chained with elif to the
\* multi-concept bonus
calculate_complexity_score_elif(q) ==
    LET words == split(q)
        s1 == Len(words) \div 5
        s2 == s1 + Cardinality({i \in DOMAIN words : lower(words[i]) \in keywords})
    IN  IF Contains(q, StrAnd) \/ Contains(q, StrComma)
        THEN s2 + 2
        ELSE IF startswith(lower(q), StrHow) \/ startswith(lower(q), StrWhy)
             THEN s2 + 3
             ELSE s2

\* a plausible slip: a question is raised to 3 points instead of gaining 3
calculate_complexity_score_question_floor(q) ==
    LET words == split(q)
        s1 == Len(words) \div 5
        s2 == s1 + Cardinality({i \in DOMAIN words : lower(words[i]) \in keywords})
        s3 == IF Contains(q, StrAnd) \/ Contains(q, StrComma) THEN s2 + 2 ELSE s2
    IN  IF startswith(lower(q), StrHow) \/ startswith(lower(q), StrWhy)
        THEN IF s3 < 3 THEN 3 ELSE s3
        ELSE s3

\* a plausible slip: a keyword counted when it begins a word
calculate_complexity_score_keyword_prefix(q) ==
    LET words == split(q)
        s1 == Len(words) \div 5
        s2 == s1 + Cardinality({i \in DOMAIN words :
                                   \E k \in keywords : startswith(lower(words[i]), k)})
        s3 == IF Contains(q, StrAnd) \/ Contains(q, StrComma) THEN s2 + 2 ELSE s2
        s4 == IF startswith(lower(q), StrHow) \/ startswith(lower(q), StrWhy)
              THEN s3 + 3 ELSE s3
    IN  s4

\* a plausible slip: "what" taken for a question word as well
calculate_complexity_score_what(q) ==
    LET words == split(q)
        s1 == Len(words) \div 5
        s2 == s1 + Cardinality({i \in DOMAIN words : lower(words[i]) \in keywords})
        s3 == IF Contains(q, StrAnd) \/ Contains(q, StrComma) THEN s2 + 2 ELSE s2
        s4 == IF \/ startswith(lower(q), StrHow)
                 \/ startswith(lower(q), StrWhy)
                 \/ startswith(lower(q), <<"w", "h", "a", "t">>)
              THEN s3 + 3 ELSE s3
    IN  s4

calculate_complexity_score(q) ==
    LET words == split(q)
        s1 == Len(words) \div 5
        s2 == s1 + Cardinality({i \in DOMAIN words : lower(words[i]) \in keywords})
        s3 == IF Contains(q, StrAnd) \/ Contains(q, StrComma) THEN s2 + 2 ELSE s2
        s4 == IF startswith(lower(q), StrHow) \/ startswith(lower(q), StrWhy)
              THEN s3 + 3 ELSE s3
    IN  s4

(***************************************************************************)
(* search_utils.py: parameters, namespace registry and selection           *)
(***************************************************************************)
\* dimension search_regulations requires of the query embedding
EmbeddingDim == 768

\* top_k of every index.query
TopK == 20

\* a plausible retuning: one result per namespace guaranteed in the low tier
determine_search_params_low_floor(score) ==
    IF score >= 6 THEN <<15, 0>>
    ELSE IF score >= 3 THEN <<12, 0>>
    ELSE <<7, 1>>

\* a plausible slip: strict comparisons at the tier thresholds
determine_search_params_strict(score) ==
    IF score > 6 THEN <<15, 0>>
    ELSE IF score > 3 THEN <<12, 0>>
    ELSE <<7, 0>>

\* <<max_results, results_per_namespace>>
determine_search_params(score) ==
    IF score >= 6 THEN <<15, 0>>
    ELSE IF score >= 3 THEN <<12, 0>>
    ELSE <<7, 0>>

\* a plausible slip: plain substring test, no word boundaries
find_word_matches_substring(text, target) == Contains(lower(text), lower(target))

\* re.search(r'\b' + re.escape(target) + r'\b', text), both lower-cased
find_word_matches(text, target) ==
    LET t == lower(text)
        g == lower(target)
        IsW(i) == i >= 1 /\ i <= Len(t) /\ IsWordChar(t[i])
        \* \b between positions i and i + 1
        Boundary(i) == IsW(i) # IsW(i + 1)
    IN  \E i \in 1..Len(t) :
            /\ i + Len(g) - 1 <= Len(t)
            /\ SubSeq(t, i, i + Len(g) - 1) = g
            /\ Boundary(i - 1)
            /\ Boundary(i + Len(g) - 1)

namespace_docs ==
    "ECB_GIM_Feb24" :>
        [display_name |-> <<"E", "C", "B", " ", "G", "I", "M", " ", "F", "e", "b", " ", "2", "0", "2", "4">>,
         variations |->
            << <<"e", "c", "b", " ", "g", "i", "m">>,
               <<"g", "i", "m", " ", "f", "e", "b", " ", "2", "0", "2", "4">>,
               <<"e", "c", "b", " ", "g", "u", "i", "d", "e">>,
               <<"e", "c", "b">> >>]
    @@
    "ECB_TRIM2017" :>
        [display_name |-> <<"E", "C", "B", " ", "T", "R", "I", "M", " ", "2", "0", "1", "7">>,
         variations |->
            << <<"e", "c", "b", " ", "t", "r", "i", "m">>,
               <<"t", "r", "i", "m", " ", "2", "0", "1", "7">>,
               <<"t", "r", "i", "m", " ", "g", "u", "i", "d", "e">>,
               <<"t", "r", "i", "m">> >>]
    @@
    "PRA_ss123" :>
        [display_name |-> <<"P", "R", "A", " ", "S", "S", "1", "/", "2", "3">>,
         variations |->
            << <<"p", "r", "a">>,
               <<"s", "s", "1", "/", "2", "3">>,
               <<"s", "s", "1", " ", "2", "3">>,
               <<"p", "r", "a", " ", "s", "s">>,
               <<"s", "s", "1">> >>]
    @@
    "JFSA_2021" :>
        [display_name |-> <<"J", "F", "S", "A", " ", "2", "0", "2", "1">>,
         variations |->
            << <<"j", "f", "s", "a">>,
               <<"j", "a", "p", "a", "n", " ", "f", "s", "a">>,
               <<"f", "s", "a">> >>]
    @@
    "FED_sr1107a1" :>
        [display_name |-> <<"F", "E", "D", " ", "S", "R", " ", "1", "1", "-", "7", "a", "1">>,
         variations |->
            << <<"f", "e", "d">>,
               <<"s", "r", " ", "1", "1", "-", "7">>,
               <<"s", "r", "1", "1", "-", "7">>,
               <<"f", "e", "d", " ", "s", "r">>,
               <<"s", "r", "1", "1">> >>]

Namespaces == DOMAIN namespace_docs

NoNamespaces == {}

\* the namespaces whose display name or one of whose variations matches
matched_namespaces(q) ==
    {ns \in Namespaces :
        \/ find_word_matches(q, namespace_docs[ns].display_name)
        \/ \E k \in DOMAIN namespace_docs[ns].variations :
               find_word_matches(q, namespace_docs[ns].variations[k])}

\* a plausible slip: the fallback to all namespaces left out
select_namespaces_matched_only(q) == matched_namespaces(q)

\* the set the fetch loop iterates: the matched ones, or all when none matched
select_namespaces(q) ==
    IF matched_namespaces(q) = {} THEN Namespaces ELSE matched_namespaces(q)

(***************************************************************************)
(* search_utils.py: fetch, deduplicate, sort, select                       *)
(***************************************************************************)
Min(a, b) == IF a <= b THEN a ELSE b

Take(s, n) == SubSeq(s, 1, Min(n, Len(s)))

\* stats.namespaces[ns].vector_count summed over the namespaces
total_vectors(idx) ==
    LET RECURSIVE Sum(_)
        Sum(S) == IF S = {} THEN 0
                  ELSE LET ns == CHOOSE x \in S : TRUE
                       IN  Len(idx[ns].vectors) + Sum(S \ {ns})
    IN  Sum(Namespaces)

\* results.matches of index.query(top_k=20, namespace=ns), when it returns
query_matches(idx, ns) == Take(idx[ns].vectors, TopK)

\* a plausible slip: the used_ids test left out
RECURSIVE collect_matches_no_dedup(_, _, _)
collect_matches_no_dedup(acc, ns, matches) ==
    IF matches = <<>> THEN acc
    ELSE LET match == Head(matches)
         IN  collect_matches_no_dedup(
                 [all_matches |-> Append(acc.all_matches,
                                         [id |-> match.id,
                                          score |-> match.score,
                                          namespace |-> ns]),
                  used_ids |-> acc.used_ids \cup {match.id}],
                 ns, Tail(matches))

\* a plausible slip: a later occurrence of an id overwrites the kept one
RECURSIVE collect_matches_last_wins(_, _, _)
collect_matches_last_wins(acc, ns, matches) ==
    IF matches = <<>> THEN acc
    ELSE LET match == Head(matches)
             stamped == [id |-> match.id, score |-> match.score, namespace |-> ns]
         IN  IF match.id \in acc.used_ids
             THEN collect_matches_last_wins(
                      [all_matches |->
                           [i \in DOMAIN acc.all_matches |->
                               IF acc.all_matches[i].id = match.id
                               THEN stamped ELSE acc.all_matches[i]],
                       used_ids |-> acc.used_ids],
                      ns, Tail(matches))
             ELSE collect_matches_last_wins(
                      [all_matches |-> Append(acc.all_matches, stamped),
                       used_ids |-> acc.used_ids \cup {match.id}],
                      ns, Tail(matches))

\* the inner loop over results.matches: first occurrence of an id is kept and
\* stamped with the namespace being fetched
RECURSIVE collect_matches(_, _, _)
collect_matches(acc, ns, matches) ==
    IF matches = <<>> THEN acc
    ELSE LET match == Head(matches)
         IN  IF match.id \in acc.used_ids
             THEN collect_matches(acc, ns, Tail(matches))
             ELSE collect_matches(
                      [all_matches |-> Append(acc.all_matches,
                                              [id |-> match.id,
                                               score |-> match.score,
                                               namespace |-> ns]),
                       used_ids |-> acc.used_ids \cup {match.id}],
                      ns, Tail(matches))

\* a plausible slip: break instead of continue in the handler of the loop
RECURSIVE fetch_all_break_on_raise(_, _, _)
fetch_all_break_on_raise(acc, order, idx) ==
    IF order = <<>> THEN acc
    ELSE IF idx[Head(order)].query_raises
         THEN acc
         ELSE fetch_all_break_on_raise(
                  collect_matches(acc, Head(order), query_matches(idx, Head(order))),
                  Tail(order), idx)

\* a plausible slip: no try around index.query, so that a raise leaves the
\* loop for the outer handler and nothing collected is returned
RECURSIVE fetch_all_unguarded(_, _, _)
fetch_all_unguarded(acc, order, idx) ==
    IF order = <<>> THEN acc
    ELSE IF idx[Head(order)].query_raises
         THEN [all_matches |-> <<>>, used_ids |-> {}]
         ELSE fetch_all_unguarded(
                  collect_matches(acc, Head(order), query_matches(idx, Head(order))),
                  Tail(order), idx)

\* the loop over namespaces_to_search, in iteration order; a query that
\* raises is reported and the loop continues with the next namespace
RECURSIVE fetch_all(_, _, _)
fetch_all(acc, order, idx) ==
    IF order = <<>> THEN acc
    ELSE IF idx[Head(order)].query_raises
         THEN fetch_all(acc, Tail(order), idx)
         ELSE fetch_all(collect_matches(acc, Head(order),
                                        query_matches(idx, Head(order))),
                        Tail(order), idx)

\* the pool before the sort
flatten(order, idx) ==
    fetch_all([all_matches |-> <<>>, used_ids |-> {}], order, idx).all_matches

\* a plausible slip: an unstable sort, equal scores end up reversed
RECURSIVE insert_by_score_unstable(_, _)
insert_by_score_unstable(s, x) ==
    IF s = <<>> THEN <<x>>
    ELSE IF Head(s).score > x.score
         THEN <<Head(s)>> \o insert_by_score_unstable(Tail(s), x)
         ELSE <<x>> \o s

\* x placed after every element whose score is >= its own
RECURSIVE insert_by_score(_, _)
insert_by_score(s, x) ==
    IF s = <<>> THEN <<x>>
    ELSE IF Head(s).score >= x.score
         THEN <<Head(s)>> \o insert_by_score(Tail(s), x)
         ELSE <<x>> \o s

\* a plausible slip: reverse=True left out
RECURSIVE sort_by_score_ascending(_)
sort_by_score_ascending(s) ==
    IF s = <<>> THEN <<>>
    ELSE LET rest == sort_by_score_ascending(SubSeq(s, 1, Len(s) - 1))
             x == s[Len(s)]
             before == SelectSeq(rest, LAMBDA y : y.score <= x.score)
             after == SelectSeq(rest, LAMBDA y : y.score > x.score)
         IN  before \o <<x>> \o after

\* a plausible slip: the sort left out
sort_by_score_none(s) == s

\* list.sort(key=score, reverse=True): descending and stable
RECURSIVE sort_by_score(_)
sort_by_score(s) ==
    IF s = <<>> THEN <<>>
    ELSE insert_by_score(sort_by_score(SubSeq(s, 1, Len(s) - 1)), s[Len(s)])

\* first pass: up to `floor` matches of each namespace, in pool order
RECURSIVE floor_pass(_, _, _, _)
floor_pass(final_results, namespace_counts, matches, floor) ==
    IF matches = <<>> THEN final_results
    ELSE LET match == Head(matches)
             ns == match.namespace
         IN  IF ns \in DOMAIN namespace_counts /\ namespace_counts[ns] < floor
             THEN floor_pass(Append(final_results, match),
                             [namespace_counts EXCEPT ![ns] = @ + 1],
                             Tail(matches), floor)
             ELSE floor_pass(final_results, namespace_counts, Tail(matches), floor)

\* second pass: the remaining top matches up to max
RECURSIVE fill_pass(_, _, _)
fill_pass(final_results, matches, max) ==
    IF matches = <<>> THEN final_results
    ELSE IF Head(matches) \notin Range(final_results) /\ Len(final_results) < max
         THEN fill_pass(Append(final_results, Head(matches)), Tail(matches), max)
         ELSE fill_pass(final_results, Tail(matches), max)

\* a plausible slip: the floor ignored
select_results_top_k(sorted, nss, max, floor) == Take(sorted, max)

\* a plausible slip: the fill pass left out
select_results_no_fill(sorted, nss, max, floor) ==
    IF floor > 0
    THEN Take(floor_pass(<<>>, [ns \in nss |-> 0], sorted, floor), max)
    ELSE Take(sorted, max)

\* what search_regulations returns from the sorted pool
select_results(sorted, nss, max, floor) ==
    IF floor > 0
    THEN LET floor_selected == floor_pass(<<>>, [ns \in nss |-> 0], sorted, floor)
             remaining_slots == max - Len(floor_selected)
             final_results == IF remaining_slots > 0
                              THEN fill_pass(floor_selected, sorted, max)
                              ELSE floor_selected
         IN  Take(final_results, max)
    ELSE Take(sorted, max)

\* lines 116-167 for one iteration order: the sorted pool and the returned list
fetch_and_merge(nss, order, idx, max, floor) ==
    LET sorted == sort_by_score(flatten(order, idx))
    IN  [all_matches |-> sorted,
         results |-> select_results(sorted, nss, max, floor)]

\* the orders in which a set can be iterated
Orders(S) ==
    {f \in [1..Cardinality(S) -> S] : \A i, j \in DOMAIN f : i # j => f[i] # f[j]}

(***************************************************************************)
(* Spec: one search_regulations request against a small index              *)
(***************************************************************************)
\* vectors a namespace of the index holds
MaxVectors == 2

NamespaceNo ==
    "ECB_GIM_Feb24" :> 1 @@ "ECB_TRIM2017" :> 2 @@ "PRA_ss123" :> 3
    @@ "JFSA_2021" :> 4 @@ "FED_sr1107a1" :> 5

\* the vectors of each namespace as ranked for the query, best first: id 99
\* is stored twice, scoring low in the first namespace and high in the second, the
\* last namespace lists its first id twice, and scores tie across namespaces
RankedIds ==
    << <<11, 99, 13>>, <<99, 22, 23>>, <<31, 32, 33>>,
       <<41, 42, 43>>, <<51, 51, 53>> >>
RankedScores ==
    << <<9, 1, 1>>, <<8, 5, 2>>, <<7, 4, 2>>, <<6, 5, 2>>, <<4, 3, 2>> >>

Ranked(ns) ==
    LET k == NamespaceNo[ns]
    IN  [j \in DOMAIN RankedIds[k] |->
            [id |-> RankedIds[k][j], score |-> RankedScores[k][j]]]

\* the namespaces whose content and availability vary; the others hold
\* MaxVectors vectors and answer
VaryingNamespaces == {"ECB_GIM_Feb24", "ECB_TRIM2017", "PRA_ss123"}

Holding(n, raises) ==
    [ns \in Namespaces |->
        IF ns \in VaryingNamespaces
        THEN [vectors |-> Take(Ranked(ns), n[ns]), query_raises |-> raises[ns]]
        ELSE [vectors |-> Take(Ranked(ns), MaxVectors), query_raises |-> FALSE]]

EmptyIndex == [ns \in Namespaces |-> [vectors |-> <<>>, query_raises |-> FALSE]]

Indexes ==
    {EmptyIndex} \cup
    {Holding(n, raises) : n \in [VaryingNamespaces -> 0..MaxVectors],
                          raises \in [VaryingNamespaces -> BOOLEAN]}

SearchQueries ==
    { <<"m", "o", "d", "e", "l", " ", "r", "i", "s", "k">>,
      <<"t", "r", "i", "m">>,
      <<"h", "o", "w", " ", "e", "c", "b", ",", " ", "p", "r", "a">>,
      <<"W", "h", "y", " ", "c", "o", "m", "p", "a", "r", "e", " ", "f", "e", "d", " ", "a", "n", "d", " ", "j", "f", "s", "a", " ", "a", "u", "d", "i", "t", " ", "g", "u", "i", "d", "e", "l", "i", "n", "e", "s">> }

\* dimensions model.encode may produce
EncodeDims == {384, EmbeddingDim}

\* no collaborator has raised
NoFaults == [stats |-> FALSE, encode |-> FALSE, body |-> FALSE]

\* nothing shown yet
NotDisplayed ==
    [complexity_score |-> 0, label |-> "", references |-> "", message |-> ""]

\* the calls search_regulations makes to its collaborators
StatsCall ==
    [fn |-> "describe_index_stats", namespace |-> "", dim |-> 0, top_k |-> 0]
EncodeCall == [fn |-> "encode", namespace |-> "", dim |-> 0, top_k |-> 0]
QueryCall(ns, dim) ==
    [fn |-> "query", namespace |-> ns, dim |-> dim, top_k |-> TopK]

\* the call process_user_query makes to the answer-generation model
GptCall ==
    [fn |-> "chat.completions.create", namespace |-> "", dim |-> 0, top_k |-> 0]

\* a plausible slip: only an unreachable index stops the search
index_unavailable_only_on_raise(stats_raises, total) == stats_raises

\* the index check: describe_index_stats raised, or no vector in any namespace
index_unavailable(stats_raises, total) == stats_raises \/ total = 0

\* length of the list generate_embedding returns: [] when encode raised
generate_embedding(encode_raises, dim) == IF encode_raises THEN 0 ELSE dim

\* a plausible slip: only the empty list is refused
embedding_invalid_only_empty(len) == len = 0

\* not query_embedding or len(query_embedding) != 768
embedding_invalid(len) == len = 0 \/ len # EmbeddingDim

\* a plausible slip: the handler around the body re-raises
outer_except_reraise(body) == body

\* try: body / except Exception: return []
outer_except(body) ==
    IF body.raised THEN [raised |-> FALSE, value |-> <<>>] ELSE body

\* how search_regulations leaves, given what the collaborators do: the index
\* check, then the embedding check, then the body, where a fault outside the
\* guarded calls (the st.info announcing the selection) reaches the outer
\* handler
search_exit(stats_raises, total, encode_raises, dim, body_raises) ==
    IF index_unavailable(stats_raises, total) THEN "no_index"
    ELSE IF embedding_invalid(generate_embedding(encode_raises, dim))
         THEN "no_embedding"
    ELSE IF body_raises
         THEN IF outer_except([raised |-> TRUE, value |-> <<>>]).raised
              THEN "raised" ELSE "error"
    ELSE "searched"

\* a plausible slip: a query that raised is issued once more
RECURSIVE queries_issued_retry(_, _, _)
queries_issued_retry(order, idx, dim) ==
    IF order = <<>> THEN <<>>
    ELSE (IF idx[Head(order)].query_raises
          THEN <<QueryCall(Head(order), dim), QueryCall(Head(order), dim)>>
          ELSE <<QueryCall(Head(order), dim)>>)
         \o queries_issued_retry(Tail(order), idx, dim)

\* the index.query calls of the fetch loop: one per namespace in iteration
\* order, whether or not an earlier one raised
RECURSIVE queries_issued(_, _, _)
queries_issued(order, idx, dim) ==
    IF order = <<>> THEN <<>>
    ELSE <<QueryCall(Head(order), dim)>> \o queries_issued(Tail(order), idx, dim)

\* Complexity.format_complexity_display, the label only
format_complexity_display(score) ==
    IF score < 3 THEN "Low"
    ELSE IF score < 6 THEN "Medium"
    ELSE "High"

\* a plausible slip: the answer asked for whatever the search returned
model_called_always(res) == TRUE

\* process_user_query: if results, build the prompt and call the model
model_called(res) == res # <<>>

\* main: the answer when there are results and an answer, else the fixed
\* "couldn't find any relevant regulations" text
shown_message(res, response) ==
    IF res # <<>> /\ response THEN "answer" ELSE "fallback"

\* a plausible slip: grouping reserved to the high tier
display_references_by_complexity_high_only(score) ==
    IF score >= 6 THEN "grouped" ELSE "flat"

\* the layout display_references_by_complexity chooses
display_references_by_complexity(score) ==
    IF score >= 3 THEN "grouped" ELSE "flat"

Init ==
    /\ query \in SearchQueries
    /\ index \in Indexes
    /\ pc = "request"
    /\ complexity_score = 0
    /\ max_results = 0
    /\ results_per_namespace = 0
    /\ namespaces_to_search = NoNamespaces
    /\ fetch_order = <<>>
    /\ all_matches = <<>>
    /\ results = <<>>
    /\ faults = NoFaults
    /\ query_embedding = 0
    /\ calls = <<>>
    /\ display = NotDisplayed
    /\ PipelineIdle

\* describe_index_stats raises, or the index holds no vector: return []
SearchIndexUnavailable ==
    /\ UNCHANGED pipelineVars
    /\ pc = "request"
    /\ \E stats_raises \in BOOLEAN :
           /\ search_exit(stats_raises, total_vectors(index),
                          FALSE, EmbeddingDim, FALSE) = "no_index"
           /\ faults' = [NoFaults EXCEPT !.stats = stats_raises]
    /\ calls' = <<StatsCall>>
    /\ pc' = "no_index"
    /\ results' = <<>>
    /\ UNCHANGED <<query, index, complexity_score, max_results,
                   results_per_namespace, namespaces_to_search, fetch_order,
                   all_matches, query_embedding, display>>

\* generate_embedding returns [] (encode raised) or a wrong dimension: return []
SearchEmbeddingInvalid ==
    /\ UNCHANGED pipelineVars
    /\ pc = "request"
    /\ \E encode_raises \in BOOLEAN, dim \in EncodeDims :
           /\ search_exit(FALSE, total_vectors(index),
                          encode_raises, dim, FALSE) = "no_embedding"
           /\ faults' = [NoFaults EXCEPT !.encode = encode_raises]
           /\ query_embedding' = generate_embedding(encode_raises, dim)
    /\ complexity_score' = calculate_complexity_score(query)
    /\ max_results' = determine_search_params(complexity_score')[1]
    /\ results_per_namespace' = determine_search_params(complexity_score')[2]
    /\ calls' = <<StatsCall, EncodeCall>>
    /\ pc' = "no_embedding"
    /\ results' = <<>>
    /\ UNCHANGED <<query, index, namespaces_to_search, fetch_order,
                   all_matches, display>>

\* the index answers, the embedding is valid, the body raises outside the
\* guarded calls before the fetch loop: the outer handler returns []
SearchFaulted ==
    /\ UNCHANGED pipelineVars
    /\ pc = "request"
    /\ \E encode_raises \in BOOLEAN, dim \in EncodeDims :
           /\ search_exit(FALSE, total_vectors(index),
                          encode_raises, dim, TRUE) \in {"error", "raised"}
           /\ pc' = search_exit(FALSE, total_vectors(index),
                                encode_raises, dim, TRUE)
           /\ faults' = [NoFaults EXCEPT !.encode = encode_raises, !.body = TRUE]
           /\ query_embedding' = generate_embedding(encode_raises, dim)
    /\ complexity_score' = calculate_complexity_score(query)
    /\ max_results' = determine_search_params(complexity_score')[1]
    /\ results_per_namespace' = determine_search_params(complexity_score')[2]
    /\ namespaces_to_search' = select_namespaces(query)
    /\ calls' = <<StatsCall, EncodeCall>>
    /\ results' = <<>>
    /\ UNCHANGED <<query, index, fetch_order, all_matches, display>>

\* the index answers, the embedding is valid: select, fetch, merge, return
SearchCompleted ==
    /\ UNCHANGED pipelineVars
    /\ pc = "request"
    /\ \E encode_raises \in BOOLEAN, dim \in EncodeDims :
           /\ search_exit(FALSE, total_vectors(index),
                          encode_raises, dim, FALSE) = "searched"
           /\ faults' = [NoFaults EXCEPT !.encode = encode_raises]
           /\ query_embedding' = generate_embedding(encode_raises, dim)
    /\ complexity_score' = calculate_complexity_score(query)
    /\ max_results' = determine_search_params(complexity_score')[1]
    /\ results_per_namespace' = determine_search_params(complexity_score')[2]
    /\ namespaces_to_search' = select_namespaces(query)
    /\ \E order \in Orders(namespaces_to_search') :
           LET r == fetch_and_merge(namespaces_to_search', order, index,
                                    max_results', results_per_namespace')
           IN  /\ fetch_order' = order
               /\ all_matches' = r.all_matches
               /\ results' =
                      outer_except([raised |-> FALSE, value |-> r.results]).value
               /\ calls' = <<StatsCall, EncodeCall>>
                           \o queries_issued(order, index, query_embedding')
    /\ pc' = "searched"
    /\ UNCHANGED <<query, index, display>>

search_regulations ==
    \/ SearchIndexUnavailable
    \/ SearchEmbeddingInvalid
    \/ SearchFaulted
    \/ SearchCompleted

\* process_user_query and main after the search returned: the score is
\* computed again from the prompt, its label is shown, and the references are
\* laid out when there are results and an answer
DisplayResponse ==
    /\ UNCHANGED pipelineVars
    /\ pc \in {"no_index", "no_embedding", "error", "searched"}
    /\ \E answered \in BOOLEAN :
           LET score == calculate_complexity_score(query)
               called == model_called(results)
               \* None when the model was not called, else its text or ""
               response == called /\ answered
           IN  /\ ~called => ~answered
               /\ calls' = IF called THEN Append(calls, GptCall) ELSE calls
               /\ display' =
                      [complexity_score |-> score,
                       label |-> format_complexity_display(score),
                       references |->
                           IF results # <<>> /\ response
                           THEN display_references_by_complexity(score)
                           ELSE "none",
                       message |-> shown_message(results, response)]
    /\ pc' = "displayed"
    /\ UNCHANGED <<query, index, complexity_score, max_results,
                   results_per_namespace, namespaces_to_search, fetch_order,
                   all_matches, results, faults, query_embedding>>

Next ==
    \/ search_regulations
    \/ DisplayResponse

Spec == Init /\ [][Next]_vars

(***************************************************************************)
(* SpecMerge: lines 116-167 with max_results and the floor as inputs       *)
(***************************************************************************)
\* matches one index.query returns
MaxReturned == 2
\* largest max_results
MaxResults == 3
\* largest results_per_namespace
MaxFloor == 2

MergeScores == {1, 2}

\* ids the vectors of a namespace may carry; id 2 is stored in both
MergeIds ==
    "ECB_GIM_Feb24" :> {1, 2} @@ "PRA_ss123" :> {2, 3}
    @@ "ECB_TRIM2017" :> {} @@ "JFSA_2021" :> {} @@ "FED_sr1107a1" :> {}

MergeSearchSets == {{"ECB_GIM_Feb24"}, {"ECB_GIM_Feb24", "PRA_ss123"}}

\* the answers of one namespace: best first, an id possibly repeated
MergeAnswers(ns) ==
    {a \in UNION {[1..n -> [id : MergeIds[ns], score : MergeScores]] : n \in 0..MaxReturned} :
        \A i \in DOMAIN a : i < Len(a) => a[i].score >= a[i + 1].score}

MergeBehaviours(ns) ==
    {[vectors |-> a, query_raises |-> FALSE] : a \in MergeAnswers(ns)}
    \cup {[vectors |-> <<>>, query_raises |-> TRUE]}

MergeIndexes(nss) ==
    {[ns \in Namespaces |-> IF ns \in nss THEN b[ns] ELSE EmptyIndex[ns]] :
        b \in {f \in [nss -> UNION {MergeBehaviours(ns) : ns \in nss}] :
                  \A ns \in nss : f[ns] \in MergeBehaviours(ns)}}

InitMerge ==
    /\ query = <<>>
    /\ namespaces_to_search \in MergeSearchSets
    /\ index \in MergeIndexes(namespaces_to_search)
    /\ max_results \in 1..MaxResults
    /\ results_per_namespace \in 0..MaxFloor
    /\ pc = "merge_request"
    /\ complexity_score = 0
    /\ fetch_order = <<>>
    /\ all_matches = <<>>
    /\ results = <<>>
    /\ faults = NoFaults
    /\ query_embedding = EmbeddingDim
    /\ calls = <<>>
    /\ display = NotDisplayed
    /\ PipelineIdle

FetchAndMerge ==
    /\ UNCHANGED pipelineVars
    /\ pc = "merge_request"
    /\ \E order \in Orders(namespaces_to_search) :
           LET r == fetch_and_merge(namespaces_to_search, order, index,
                                    max_results, results_per_namespace)
           IN  /\ fetch_order' = order
               /\ all_matches' = r.all_matches
               /\ results' = r.results
    /\ pc' = "merged"
    /\ UNCHANGED <<query, index, complexity_score, max_results,
                   results_per_namespace, namespaces_to_search, faults,
                   query_embedding, calls, display>>

NextMerge == FetchAndMerge

SpecMerge == InitMerge /\ [][NextMerge]_vars

(***************************************************************************)
(* SpecScore: the scorer applied to bounded queries                        *)
(***************************************************************************)
\* the pieces scored queries are assembled from
QueryPieces ==
    { <<"h", "o", "w">>, <<"W", "h", "y">>, <<" ">>, <<",">>,
      <<"a", "n", "d">>, <<"A", "u", "d", "i", "t">>,
      <<"c", "o", "m", "p", "a", "r", "e">>,
      <<" ", "a", "\t", "b", " ", " ", "c", " ", "d", " ">> }

RECURSIVE Concat(_)
Concat(ps) == IF ps = <<>> THEN <<>> ELSE Head(ps) \o Concat(Tail(ps))

PieceSeqs == UNION {[1..n -> QueryPieces] : n \in 0..MaxPieces}

\* two prompts of the kind the chat input receives
CompareQuery ==
    << "C", "o", "m", "p", "a", "r", "e", " ", "t", "h", "e", " ", "a",
      "u", "d", "i", "t", " ", "f", "r", "a", "m", "e", "w", "o", "r", "k",
      "s", " ", "a", "c", "r", "o", "s", "s", " ", "j", "u", "r", "i", "s",
      "d", "i", "c", "t", "i", "o", "n", "s" >>

ModelRiskQuery ==
    << "W", "h", "a", "t", " ", "i", "s", " ", "m", "o", "d", "e", "l",
      " ", "r", "i", "s", "k", "?" >>

ScoredQueries == {Concat(ps) : ps \in PieceSeqs} \cup {CompareQuery, ModelRiskQuery}

InitScore ==
    /\ query \in ScoredQueries
    /\ pc = "unscored"
    /\ complexity_score = 0
    /\ index = EmptyIndex
    /\ max_results = 0
    /\ results_per_namespace = 0
    /\ namespaces_to_search = NoNamespaces
    /\ fetch_order = <<>>
    /\ all_matches = <<>>
    /\ results = <<>>
    /\ faults = NoFaults
    /\ query_embedding = 0
    /\ calls = <<>>
    /\ display = NotDisplayed
    /\ PipelineIdle

ScoreQuery ==
    /\ UNCHANGED pipelineVars
    /\ pc = "unscored"
    /\ complexity_score' = calculate_complexity_score(query)
    /\ pc' = "scored"
    /\ UNCHANGED <<query, index, max_results, results_per_namespace,
                   namespaces_to_search, fetch_order, all_matches, results,
                   faults, query_embedding, calls, display>>

\* line 50 of search_regulations: the parameters for the score
DetermineSearchParams ==
    /\ UNCHANGED pipelineVars
    /\ pc = "scored"
    /\ max_results' = determine_search_params(complexity_score)[1]
    /\ results_per_namespace' = determine_search_params(complexity_score)[2]
    /\ pc' = "parametrised"
    /\ UNCHANGED <<query, index, complexity_score, namespaces_to_search,
                   fetch_order, all_matches, results, faults, query_embedding,
                   calls, display>>

NextScore ==
    \/ ScoreQuery
    \/ DetermineSearchParams

SpecScore == InitScore /\ [][NextScore]_vars

(***************************************************************************)
(* SpecSelect: the namespace selection applied to bounded queries          *)
(***************************************************************************)
\* number of pieces a query handed to the selection is assembled from
MaxSelectPieces == 3

\* aliases as words of their own, inside longer words, in other case, and
\* the characters that do or do not delimit a word
SelectPieces ==
    { <<"f", "e", "d">>, <<"f", "e", "d", "e", "r", "a", "l">>,
      <<"T", "r", "i", "m">>, <<"t", "r", "i", "m", "m", "e", "d">>,
      <<"E", "C", "B">>, <<"s", "s", "1", "/", "2", "3">>,
      <<" ">>, <<",">>, <<"x">> }

SelectPieceSeqs == UNION {[1..n -> SelectPieces] : n \in 0..MaxSelectPieces}

SelectQueries == {Concat(ps) : ps \in SelectPieceSeqs}

InitSelect ==
    /\ query \in SelectQueries
    /\ pc = "unselected"
    /\ complexity_score = 0
    /\ index = EmptyIndex
    /\ max_results = 0
    /\ results_per_namespace = 0
    /\ namespaces_to_search = NoNamespaces
    /\ fetch_order = <<>>
    /\ all_matches = <<>>
    /\ results = <<>>
    /\ faults = NoFaults
    /\ query_embedding = EmbeddingDim
    /\ calls = <<>>
    /\ display = NotDisplayed
    /\ PipelineIdle

\* lines 93-114 of search_regulations
SelectNamespaces ==
    /\ UNCHANGED pipelineVars
    /\ pc = "unselected"
    /\ namespaces_to_search' = select_namespaces(query)
    /\ pc' = "selected"
    /\ UNCHANGED <<query, index, complexity_score, max_results,
                   results_per_namespace, fetch_order, all_matches, results,
                   faults, query_embedding, calls, display>>

NextSelect == SelectNamespaces

SpecSelect == InitSelect /\ [][NextSelect]_vars

(***************************************************************************)
(* JsonToPinecone.py: pad_embedding                                        *)
(***************************************************************************)
\* the chat request is not running
SearchIdle ==
    /\ query = <<>>
    /\ index = EmptyIndex
    /\ complexity_score = 0
    /\ max_results = 0
    /\ results_per_namespace = 0
    /\ namespaces_to_search = NoNamespaces
    /\ fetch_order = <<>>
    /\ all_matches = <<>>
    /\ results = <<>>
    /\ faults = NoFaults
    /\ query_embedding = 0
    /\ calls = <<>>
    /\ display = NotDisplayed

\* dimension of the vectors the index stores
TARGET_DIMENSION == 768

\* embedding * num_repeats: n copies of s one after the other
Repeat(s, n) ==
    IF n <= 0 \/ s = <<>> THEN <<>>
    ELSE [i \in 1..(n * Len(s)) |-> s[((i - 1) % Len(s)) + 1]]

\* a plausible slip: a long embedding returned as it is
pad_embedding_no_cut(emb, dim) ==
    LET current_dim == Len(emb)
    IN  IF current_dim >= dim
        THEN [raised |-> FALSE, value |-> emb]
        ELSE IF current_dim = 0
        THEN [raised |-> TRUE, value |-> <<>>]
        ELSE [raised |-> FALSE,
              value |-> Repeat(emb, dim \div current_dim)
                        \o SubSeq(emb, 1, dim % current_dim)]

\* pad_embedding: cut to the first dim values, or repeated up to dim values;
\* the division by the length of an empty embedding raises ZeroDivisionError
pad_embedding(emb, dim) ==
    LET current_dim == Len(emb)
    IN  IF current_dim >= dim
        THEN [raised |-> FALSE, value |-> SubSeq(emb, 1, dim)]
        ELSE IF current_dim = 0
        THEN [raised |-> TRUE, value |-> <<>>]
        ELSE LET num_repeats == dim \div current_dim
                 remainder == dim % current_dim
             IN  [raised |-> FALSE,
                  value |-> Repeat(emb, num_repeats) \o SubSeq(emb, 1, remainder)]

(***************************************************************************)
(* SpecPad: pad_embedding applied to bounded embeddings                    *)
(***************************************************************************)
\* longest embedding enumerated value by value
MaxDim == 3
\* largest target dimension enumerated
MaxTarget == 5

PadValues == {0, 1, 2}

\* a vector as long as model.encode produces
ModelVector(dim) == [i \in 1..dim |-> i % 3]

PadEmbeddings ==
    UNION {[1..d -> PadValues] : d \in 0..MaxDim}
    \cup {ModelVector(dim) : dim \in EncodeDims}

PadTargets == 0..MaxTarget \cup {TARGET_DIMENSION}

InitPad ==
    /\ pc = "unpadded"
    /\ embedding \in PadEmbeddings
    /\ target_dim \in PadTargets
    /\ padded = [raised |-> FALSE, value |-> <<>>]
    /\ SearchIdle
    /\ UpsertIdle /\ IngestIdle /\ ChatIdle /\ ChunkIdle

PadEmbedding ==
    /\ pc = "unpadded"
    /\ padded' = pad_embedding(embedding, target_dim)
    /\ pc' = "padded"
    /\ UNCHANGED <<embedding, target_dim, searchVars, upsertVars, json_chunks,
                   chatVars, sentences, chunks>>

NextPad == PadEmbedding

SpecPad == InitPad /\ [][NextPad]_vars

(***************************************************************************)
(* JsonToPinecone.py: upsert_vectors                                       *)
(***************************************************************************)
\* attempts allowed for one batch
MAX_RETRIES == 3

\* vectors[i:i + batch_size]
batch_vectors(vecs, start, size) ==
    SubSeq(vecs, start + 1, Min(start + size, Len(vecs)))

\* a plausible slip: retry_count <= MAX_RETRIES, one attempt too many
may_retry_once_more(count) == count <= MAX_RETRIES

\* after a failed attempt: retry while retry_count < MAX_RETRIES, else raise
may_retry(count) == count < MAX_RETRIES

(***************************************************************************)
(* SpecUpsert: one upsert_vectors call, step by step                       *)
(***************************************************************************)
\* most vectors handed to upsert_vectors
MaxUpsert == 4
\* largest batch_size
MaxBatch == 2

InitUpsert ==
    /\ pc = "upsert_request"
    /\ \E n \in 1..MaxUpsert : vectors = [k \in 1..n |-> k]
    /\ batch_size \in 1..MaxBatch
    /\ batch_start = 0
    /\ retry_count = 0
    /\ upsert_calls = <<>>
    /\ successful_uploads = 0
    /\ SearchIdle
    /\ PadIdle /\ IngestIdle /\ ChatIdle /\ ChunkIdle

\* the statistics before the loop are read, the loop starts at offset 0
UpsertBegin ==
    /\ pc = "upsert_request"
    /\ pc' = "upsert_batch"
    /\ batch_start' = 0
    /\ retry_count' = 0
    /\ UNCHANGED <<vectors, batch_size, upsert_calls, successful_uploads,
                   searchVars, padVars, json_chunks, chatVars, sentences, chunks>>

\* describe_index_stats before the loop raises: nothing is submitted
UpsertBeginRaises ==
    /\ pc = "upsert_request"
    /\ pc' = "upsert_raised"
    /\ UNCHANGED <<upsertVars, searchVars, padVars, json_chunks, chatVars,
                   sentences, chunks>>

\* index.upsert returns for the current batch: its vectors are verified one
\* by one (verify_vector_upload never raises), and the loop goes on to the
\* next batch
UpsertAttemptReturns ==
    /\ pc = "upsert_batch"
    /\ batch_start < Len(vectors)
    /\ LET batch == batch_vectors(vectors, batch_start, batch_size)
       IN  /\ upsert_calls' = Append(upsert_calls,
                                     [start |-> batch_start, batch |-> batch,
                                      raised |-> FALSE])
           /\ \E verified_count \in 0..Len(batch) :
                  successful_uploads' = successful_uploads + verified_count
    /\ batch_start' = batch_start + batch_size
    /\ retry_count' = 0
    /\ UNCHANGED <<pc, vectors, batch_size, searchVars, padVars, json_chunks,
                   chatVars, sentences, chunks>>

\* index.upsert raises for the current batch: retry, or re-raise when the
\* attempts are used up
UpsertAttemptRaises ==
    /\ pc = "upsert_batch"
    /\ batch_start < Len(vectors)
    /\ upsert_calls' = Append(upsert_calls,
                              [start |-> batch_start,
                               batch |-> batch_vectors(vectors, batch_start, batch_size),
                               raised |-> TRUE])
    /\ retry_count' = retry_count + 1
    /\ pc' = IF may_retry(retry_count') THEN "upsert_batch" ELSE "upsert_raised"
    /\ UNCHANGED <<vectors, batch_size, batch_start, successful_uploads,
                   searchVars, padVars, json_chunks, chatVars, sentences, chunks>>

\* the loop is over: the statistics are read again and the summary printed
UpsertEnd ==
    /\ pc = "upsert_batch"
    /\ batch_start >= Len(vectors)
    /\ \E stats_raises \in BOOLEAN :
           pc' = IF stats_raises THEN "upsert_raised" ELSE "upserted"
    /\ UNCHANGED <<upsertVars, searchVars, padVars, json_chunks, chatVars,
                   sentences, chunks>>

NextUpsert ==
    \/ UpsertBegin
    \/ UpsertBeginRaises
    \/ UpsertAttemptReturns
    \/ UpsertAttemptRaises
    \/ UpsertEnd

SpecUpsert == InitUpsert /\ [][NextUpsert]_vars

(***************************************************************************)
(* JsonToPinecone.py: process_json_file                                    *)
(***************************************************************************)
\* the ways a chunk of the file can be: well formed, or failing one of the
\* checks of validate_chunk
ChunkKinds ==
    {"valid", "not_dict", "no_text", "no_metadata", "metadata_not_dict",
     "missing_fields"}

\* validate_chunk: a dictionary with "text", with a dictionary "metadata"
\* holding document_title, page_number and chunk_index
validate_chunk(chunk) ==
    /\ chunk.kind # "not_dict"
    /\ chunk.kind # "no_text"
    /\ chunk.kind # "no_metadata"
    /\ chunk.kind # "metadata_not_dict"
    /\ chunk.kind # "missing_fields"

\* the vector of the sentence-transformer and pad_embedding for one text
encode(text) == <<"embedding", text>>

\* generate_embeddings: one embedding per text, in the order of the texts
generate_embeddings(texts) == [k \in DOMAIN texts |-> encode(texts[k])]

\* the body of the loop at lines 242-264 raises on a chunk that is not a
\* dictionary (TypeError), lacks "metadata" or "text" (KeyError), has a
\* "metadata" without get (AttributeError), or lacks a field of the id
\* (KeyError)
vector_raises(chunk) ==
    \/ chunk.kind = "not_dict"
    \/ chunk.kind = "no_metadata"
    \/ chunk.kind = "metadata_not_dict"
    \/ chunk.kind = "no_text"
    \/ chunk.kind = "missing_fields"

\* for chunk, embedding in zip(chunks, embeddings): the loop pairs the k-th
\* chunk of the FILE with the k-th embedding, and stops at the shorter list
prepare_vectors(chs, embeddings) ==
    LET n == Min(Len(chs), Len(embeddings))
    IN  [raised |-> \E k \in 1..n : vector_raises(chs[k]),
         value  |-> [k \in 1..n |->
                        [id     |-> chs[k].chunk_index,
                         values |-> embeddings[k],
                         text   |-> chs[k].text]]]

(***************************************************************************)
(* SpecIngest: process_json_file on one file, then its upsert_vectors      *)
(***************************************************************************)
\* most chunks in a file
MaxChunks == 2

ChunkTexts == {"a", "b"}

JsonFiles ==
    UNION {[1..n -> ChunkKinds \X ChunkTexts] : n \in 0..MaxChunks}

InitIngest ==
    /\ pc = "ingest_request"
    /\ \E file \in JsonFiles :
           json_chunks = [k \in DOMAIN file |->
                             [kind |-> file[k][1], text |-> file[k][2],
                              chunk_index |-> k]]
    /\ SearchIdle
    /\ PadIdle /\ UpsertIdle /\ ChatIdle /\ ChunkIdle

\* lines 221-267: validate, embed the valid texts, prepare the vectors and
\* hand them to upsert_vectors with batch_size 5
ProcessJsonFile ==
    /\ pc = "ingest_request"
    /\ LET valid_chunks == SelectSeq(json_chunks, validate_chunk)
           texts        == [k \in DOMAIN valid_chunks |-> valid_chunks[k].text]
           prepared     == prepare_vectors(json_chunks, generate_embeddings(texts))
       IN  \E encode_raises \in BOOLEAN :
               IF valid_chunks = <<>>
               THEN /\ pc' = "ingest_no_valid_chunks"
                    /\ UNCHANGED upsertVars
               ELSE IF encode_raises
               THEN /\ pc' = "ingest_encode_raised"
                    /\ UNCHANGED upsertVars
               ELSE IF prepared.raised
               THEN /\ pc' = "ingest_prepare_raised"
                    /\ UNCHANGED upsertVars
               ELSE /\ pc' = "upsert_request"
                    /\ vectors' = prepared.value
                    /\ batch_size' = 5
                    /\ UNCHANGED <<batch_start, retry_count, upsert_calls,
                                   successful_uploads>>
    /\ UNCHANGED <<json_chunks, searchVars, padVars, chatVars, sentences, chunks>>

NextIngest == ProcessJsonFile \/ NextUpsert

SpecIngest == InitIngest /\ [][NextIngest]_vars

(***************************************************************************)
(* StreamlitReg.py: the chat loop of main                                  *)
(***************************************************************************)
\* the text shown when there is nothing to answer with
FallbackText ==
    "I couldn't find any relevant regulations. Could you please rephrase your question?"

\* a plausible slip: if results, without the test of gpt_response
assistant_content_results_only(res, response) ==
    IF res # <<>> THEN response ELSE FallbackText

\* main, lines 355-368: the content of the assistant message
assistant_content(res, response) ==
    IF res # <<>> /\ response # None /\ response # ""
    THEN response
    ELSE FallbackText

(***************************************************************************)
(* SpecChat: a session of prompts, one script run per prompt               *)
(***************************************************************************)
\* most prompts in a session
MaxPrompts == 3

Prompts == {<<"h", "i">>, <<"f", "e", "d">>}

\* what search_regulations returns: nothing, or some matches
ChatResults == {<<>>, <<[id |-> 1, score |-> 1, namespace |-> "FED_sr1107a1"]>>}

\* what get_gpt_response returns: the text of the model, possibly empty, or
\* its own error text
GptResponses == {"", "answer", "Error generating response: timeout"}

InitChat ==
    /\ pc = "chat"
    /\ SearchIdle
    /\ PadIdle /\ UpsertIdle /\ IngestIdle /\ ChatIdle /\ ChunkIdle

\* one run of main with a prompt: the user message, process_user_query, the
\* assistant message
ChatPrompt ==
    /\ pc = "chat"
    /\ Len(messages) < 2 * MaxPrompts
    /\ \E prompt \in Prompts, res \in ChatResults :
           \E response \in (IF model_called(res) THEN GptResponses ELSE {None}) :
               /\ query' = prompt
               /\ results' = res
               /\ gpt_response' = response
               /\ messages' =
                      Append(Append(messages,
                                    [role |-> "user", content |-> prompt]),
                             [role |-> "assistant",
                              content |-> assistant_content(res, response)])
    /\ UNCHANGED <<pc, index, complexity_score, max_results,
                   results_per_namespace, namespaces_to_search, fetch_order,
                   all_matches, faults, query_embedding, calls, display,
                   padVars, upsertVars, json_chunks, sentences, chunks>>

NextChat == ChatPrompt

SpecChat == InitChat /\ [][NextChat]_vars

(***************************************************************************)
(* NewChunkProcess.py: PDFProcessor.create_chunks                          *)
(***************************************************************************)
TARGET_TOKENS == 200
MIN_TOKENS == 50
MAX_TOKENS == 300

\* a chunk of the output: its token_count, and the append that emitted it:
\* "flush" (lines 68-72), "split" (lines 88-92 and 96-100) or "accumulated"
\* (lines 109-113 and 121-125)
Chunk(count, origin) == [token_count |-> count, origin |-> origin]

\* the loop over sub_sentences, lines 81-93, from the k-th part on
RECURSIVE split_subs(_, _, _, _, _)
split_subs(subs, k, current_sub, current_sub_tokens, out) ==
    IF k > Len(subs)
    THEN \* lines 95-100: what is left is a chunk
         IF current_sub # <<>>
         THEN Append(out, Chunk(current_sub_tokens, "split"))
         ELSE out
    ELSE LET sub_tokens == subs[k]
         IN  IF current_sub_tokens + sub_tokens <= TARGET_TOKENS
             THEN split_subs(subs, k + 1, Append(current_sub, sub_tokens),
                             current_sub_tokens + sub_tokens, out)
             ELSE split_subs(subs, k + 1, <<sub_tokens>>, sub_tokens,
                             IF current_sub # <<>>
                             THEN Append(out, Chunk(current_sub_tokens, "split"))
                             ELSE out)

\* the loop over sentences, lines 63-117, from the k-th sentence on, and
\* the remaining text of lines 119-125
RECURSIVE walk_sentences(_, _, _, _, _)
walk_sentences(sents, k, current_chunk, current_tokens, out) ==
    IF k > Len(sents)
    THEN IF current_chunk # <<>> /\ current_tokens >= MIN_TOKENS
         THEN Append(out, Chunk(current_tokens, "accumulated"))
         ELSE out
    ELSE LET sentence_tokens == sents[k].tokens
         IN  IF sentence_tokens > MAX_TOKENS
             THEN LET flushed == IF current_chunk # <<>>
                                 THEN Append(out, Chunk(current_tokens, "flush"))
                                 ELSE out
                  IN  walk_sentences(sents, k + 1, <<>>, 0,
                                     split_subs(sents[k].subs, 1, <<>>, 0, flushed))
             ELSE IF current_tokens + sentence_tokens <= TARGET_TOKENS
             THEN walk_sentences(sents, k + 1,
                                 Append(current_chunk, sentence_tokens),
                                 current_tokens + sentence_tokens, out)
             ELSE walk_sentences(sents, k + 1, <<sentence_tokens>>,
                                 sentence_tokens,
                                 IF current_tokens >= MIN_TOKENS
                                 THEN Append(out, Chunk(current_tokens, "accumulated"))
                                 ELSE out)

\* create_chunks on the sentences of a page
create_chunks(sents) == walk_sentences(sents, 1, <<>>, 0, <<>>)

(***************************************************************************)
(* SpecChunks: create_chunks on bounded pages                              *)
(***************************************************************************)
\* most sentences on a page
MaxSentences == 3

\* sentences by get_token_count, with the token counts of their parts
\* between commas, semicolons and colons: an empty one, short and long
\* ones, and ones above MAX_TOKENS with and without punctuation
SentenceKinds ==
    {[tokens |-> 0,   subs |-> <<0>>],
     [tokens |-> 30,  subs |-> <<30>>],
     [tokens |-> 120, subs |-> <<120>>],
     [tokens |-> 250, subs |-> <<250>>],
     [tokens |-> 301, subs |-> <<301>>],
     [tokens |-> 372, subs |-> <<150, 120, 100>>],
     [tokens |-> 332, subs |-> <<30, 301>>]}

Pages == UNION {[1..n -> SentenceKinds] : n \in 0..MaxSentences}

InitChunks ==
    /\ pc = "unchunked"
    /\ sentences \in Pages
    /\ chunks = <<>>
    /\ SearchIdle
    /\ PadIdle /\ UpsertIdle /\ IngestIdle /\ ChatIdle

CreateChunks ==
    /\ pc = "unchunked"
    /\ pc' = "chunked"
    /\ chunks' = create_chunks(sentences)
    /\ UNCHANGED <<sentences, searchVars, padVars, upsertVars, json_chunks,
                   chatVars>>

NextChunks == CreateChunks

SpecChunks == InitChunks /\ [][NextChunks]_vars

(***************************************************************************)
(* Vocabulary of the claims about the search                               *)
(***************************************************************************)
\* largest complexity score the parameter table is examined for
MaxComplexity == 12

Ids(seq) == {seq[i].id : i \in DOMAIN seq}

DistinctIds(seq) == \A i, j \in DOMAIN seq : i # j => seq[i].id # seq[j].id

SortedDesc(seq) == \A i, j \in DOMAIN seq : i < j => seq[i].score >= seq[j].score

\* what the query of a searched namespace contributed: its matches, or
\* nothing when it raised
Answer(ns) ==
    IF index[ns].query_raises THEN <<>>
    ELSE [i \in 1..Min(Len(index[ns].vectors), TopK) |-> index[ns].vectors[i]]

ReturnedBy(id) == {ns \in namespaces_to_search : id \in Ids(Answer(ns))}

\* ids of the candidate pool
PoolIds == UNION {Ids(Answer(ns)) : ns \in namespaces_to_search}

PositionIn(order, ns) == CHOOSE i \in DOMAIN order : order[i] = ns

\* the namespace fetched first among those that returned id
FirstNamespace(id) ==
    CHOOSE ns \in ReturnedBy(id) :
        \A other \in ReturnedBy(id) :
            PositionIn(fetch_order, ns) <= PositionIn(fetch_order, other)

FirstIndex(ns, id) ==
    CHOOSE i \in DOMAIN Answer(ns) :
        Answer(ns)[i].id = id /\ \A j \in 1..(i - 1) : Answer(ns)[j].id # id

\* the occurrence of id seen first in iteration order
FirstSeen(id) ==
    LET ns == FirstNamespace(id)
    IN  [id |-> id, score |-> Answer(ns)[FirstIndex(ns, id)].score, namespace |-> ns]

Occurrences(seq, id) == {i \in DOMAIN seq : seq[i].id = id}

\* ids two searched namespaces returned with different scores
TwiceReturned ==
    {id \in PoolIds :
        \E a, b \in ReturnedBy(id) :
            /\ a # b
            /\ \E i \in DOMAIN Answer(a), j \in DOMAIN Answer(b) :
                   /\ Answer(a)[i].id = id /\ Answer(b)[j].id = id
                   /\ Answer(a)[i].score # Answer(b)[j].score}

Returned == pc \in {"searched", "no_index", "no_embedding", "error"}

(***************************************************************************)
(* C2                                                                      *)
(***************************************************************************)
\* C2: the ids of a returned list are pairwise distinct, on the floor-0 path
\* and on the floor/fill path, also when an id is returned by two namespaces
\* or twice by one.
C2_DistinctIds ==
    pc = "merged" => DistinctIds(results)

\* floor and fill both ran, and the list holds an id that two namespaces
\* returned and an id that one namespace returned twice
C2_Witness ==
    /\ pc = "merged"
    /\ results_per_namespace > 0
    /\ Len(results) >= 2
    /\ \E i \in DOMAIN results : Cardinality(ReturnedBy(results[i].id)) = 2
    /\ \E ns \in namespaces_to_search :
           \E i, j \in DOMAIN Answer(ns) :
               i # j /\ Answer(ns)[i].id = Answer(ns)[j].id
               /\ Answer(ns)[i].id \in Ids(results)

(***************************************************************************)
(* C3                                                                      *)
(***************************************************************************)
\* C3: every list search_regulations returns is in non-increasing score order.
C3_SortedByScore ==
    Returned => SortedDesc(results)

\* a list of four or more matches of three or more namespaces whose best
\* match was not fetched first
C3_Witness ==
    /\ pc = "searched"
    /\ Len(results) >= 4
    /\ Cardinality({results[i].namespace : i \in DOMAIN results}) >= 3
    /\ results[1].namespace # fetch_order[1]
    /\ results[1].score > results[Len(results)].score

(***************************************************************************)
(* C4                                                                      *)
(***************************************************************************)
\* C4: with results_per_namespace > 0 the returned list (floor selection,
\* fill, truncation) is sorted by descending score.
C4_FloorResultSorted ==
    (pc = "merged" /\ results_per_namespace > 0) => SortedDesc(results)

(***************************************************************************)
(* C5                                                                      *)
(***************************************************************************)
Available(ns) ==
    Cardinality({i \in DOMAIN all_matches : all_matches[i].namespace = ns})

InResults(ns) ==
    Cardinality({i \in DOMAIN results : results[i].namespace = ns})

Guaranteed(ns) == Min(results_per_namespace, Available(ns))

RECURSIVE SumGuaranteed(_)
SumGuaranteed(S) ==
    IF S = {} THEN 0
    ELSE LET ns == CHOOSE x \in S : TRUE
         IN  Guaranteed(ns) + SumGuaranteed(S \ {ns})

\* C5: with floor f > 0 the returned list holds at least min(f, available)
\* matches of every namespace that contributed a candidate, whenever these
\* minimums sum to at most max_results; and it never holds more than
\* max_results matches.
C5_NamespaceFloor ==
    (pc = "merged" /\ results_per_namespace > 0) =>
        /\ Len(results) <= max_results
        /\ SumGuaranteed(namespaces_to_search) <= max_results =>
               \A ns \in namespaces_to_search :
                   Available(ns) >= 1 => InResults(ns) >= Guaranteed(ns)

\* two namespaces contributed, the minimums fit, and the floor kept a match
\* that the pure top-k would have cut
C5_Witness ==
    /\ pc = "merged"
    /\ results_per_namespace > 0
    /\ \A ns \in namespaces_to_search : Available(ns) >= 1
    /\ Cardinality(namespaces_to_search) = 2
    /\ SumGuaranteed(namespaces_to_search) <= max_results
    /\ Len(all_matches) > max_results
    /\ \E i \in DOMAIN results : \A j \in 1..max_results : all_matches[j] # results[i]

(***************************************************************************)
(* C6                                                                      *)
(***************************************************************************)
\* C6: determine_search_params gives floor 0 for every score, so every
\* completed search returns the pure top-k: the first min(max_results, n)
\* candidates of the deduplicated pool in descending score order.
C6_PureTopK ==
    /\ \A s \in 0..MaxComplexity : determine_search_params(s)[2] = 0
    /\ pc \in {"searched", "no_embedding"} => results_per_namespace = 0
    /\ pc = "searched" =>
           /\ Ids(all_matches) = PoolIds
           /\ DistinctIds(all_matches)
           /\ SortedDesc(all_matches)
           /\ Len(results) = Min(max_results, Cardinality(PoolIds))
           /\ \A i \in DOMAIN results : results[i] = all_matches[i]

\* a completed search whose pool is larger than max_results
C6_Witness ==
    /\ pc = "searched"
    /\ Cardinality(PoolIds) > max_results
    /\ Len(results) = max_results
    /\ Cardinality({results[i].namespace : i \in DOMAIN results}) >= 4

(***************************************************************************)
(* C7                                                                      *)
(***************************************************************************)
\* C7: for every floor >= 0 and max_results > 0 the returned list has
\* exactly min(max_results, size of the deduplicated pool) matches.
C7_ResultLength ==
    pc = "merged" => Len(results) = Min(max_results, Cardinality(PoolIds))

\* floor and fill ran on a pool larger than max_results, and the list
\* differs from the pure top-k
C7_Witness ==
    /\ pc = "merged"
    /\ results_per_namespace > 0
    /\ Cardinality(PoolIds) > max_results
    /\ Len(results) = max_results
    /\ max_results >= 2
    /\ results # SubSeq(all_matches, 1, max_results)

(***************************************************************************)
(* C8                                                                      *)
(***************************************************************************)
\* C8 as stated: an id that two namespaces return with different scores is
\* in the returned list exactly once, with the score and namespace of the
\* occurrence seen first in iteration order.
C8_KeptInResults ==
    pc = "searched" =>
        \A id \in TwiceReturned :
            /\ Cardinality(Occurrences(results, id)) = 1
            /\ \A i \in Occurrences(results, id) : results[i] = FirstSeen(id)

\* C8 as amended: such an id is in the deduplicated pool exactly once, as its
\* first-seen occurrence (a later one never replaces or re-scores it); the
\* returned list holds it at most once, only as that occurrence, and holds
\* it exactly when that occurrence is among the first max_results of the
\* sorted pool.
C8_FirstSeenKept ==
    pc = "searched" =>
        \A id \in TwiceReturned :
            /\ Cardinality(Occurrences(all_matches, id)) = 1
            /\ \A i \in Occurrences(all_matches, id) :
                   /\ all_matches[i] = FirstSeen(id)
                   /\ (i <= max_results) <=> (Occurrences(results, id) # {})
            /\ Cardinality(Occurrences(results, id)) <= 1
            /\ \A i \in Occurrences(results, id) : results[i] = FirstSeen(id)

\* the returned list holds the shared id with the lower, first-seen score
\* although a later namespace returned it with a higher one
C8_Witness ==
    /\ pc = "searched"
    /\ \E id \in TwiceReturned :
           /\ \E i \in DOMAIN results : results[i].id = id
           /\ \E ns \in ReturnedBy(id) :
                  \E k \in DOMAIN Answer(ns) :
                      Answer(ns)[k].id = id /\ Answer(ns)[k].score > FirstSeen(id).score

(***************************************************************************)
(* C9                                                                      *)
(***************************************************************************)
\* position of a pooled match in the flattening: namespace by namespace in
\* iteration order, inside a namespace in the order the query returned
FlatRank(m) ==
    PositionIn(fetch_order, m.namespace) * (TopK + 1) + FirstIndex(m.namespace, m.id)

Precedes(a, b) ==
    \/ a.score > b.score
    \/ a.score = b.score /\ FlatRank(a) < FlatRank(b)

\* C9: the returned list is a function of the per-namespace answers, the
\* flattening order and max_results: it is the first min(max_results, n)
\* first-seen candidates in descending score order, equal scores in
\* flattening order.
C9_Deterministic ==
    pc = "searched" =>
        /\ \A i \in DOMAIN results : results[i] = FirstSeen(results[i].id)
        /\ \A i, j \in DOMAIN results : i < j => Precedes(results[i], results[j])
        /\ \A id \in PoolIds \ Ids(results) :
               \A i \in DOMAIN results : Precedes(results[i], FirstSeen(id))
        /\ Len(results) = Min(max_results, Cardinality(PoolIds))

\* two neighbours of the returned list tie in score and come from different
\* namespaces, and a candidate that ties with the last one returned was cut
C9_Witness ==
    /\ pc = "searched"
    /\ Len(results) = max_results
    /\ \E i \in DOMAIN results :
           /\ i < Len(results)
           /\ results[i].score = results[i + 1].score
           /\ results[i].namespace # results[i + 1].namespace
    /\ \E id \in PoolIds \ Ids(results) :
           FirstSeen(id).score = results[max_results].score

(***************************************************************************)
(* C10                                                                     *)
(***************************************************************************)
\* one fixed iteration order of a set: the order of the registry
RegistryOrder ==
    <<"ECB_GIM_Feb24", "ECB_TRIM2017", "PRA_ss123", "JFSA_2021", "FED_sr1107a1">>

CanonicalOrder(S) == SelectSeq(RegistryOrder, LAMBDA ns : ns \in S)

ResultsUnder(order) ==
    fetch_and_merge(namespaces_to_search, order, index,
                    max_results, results_per_namespace).results

NoSharedId ==
    \A a, b \in namespaces_to_search :
        a # b => Ids(Answer(a)) \cap Ids(Answer(b)) = {}

ScoresOf(seq) == {seq[i].score : i \in DOMAIN seq}

NoSharedScore ==
    \A a, b \in namespaces_to_search :
        a # b => ScoresOf(Answer(a)) \cap ScoresOf(Answer(b)) = {}

\* C10 as stated: whatever the order in which the namespaces were fetched,
\* the returned list is the one every other order gives.
C10_OrderIndependent ==
    pc = "searched" => results = ResultsUnder(CanonicalOrder(namespaces_to_search))

\* C10 as amended: the returned list is the same for every fetch order
\* provided no id is returned by two namespaces and no two namespaces return
\* matches of equal score.
C10_OrderIndependentIfDisjoint ==
    (pc = "searched" /\ NoSharedId /\ NoSharedScore) =>
        results = ResultsUnder(CanonicalOrder(namespaces_to_search))

\* three or more namespaces contributed disjoint ids and scores and were
\* fetched in another order than the canonical one
C10_Witness ==
    /\ pc = "searched"
    /\ NoSharedId
    /\ NoSharedScore
    /\ Cardinality({results[i].namespace : i \in DOMAIN results}) >= 3
    /\ fetch_order # CanonicalOrder(namespaces_to_search)
    /\ fetch_order[1] # results[1].namespace

(***************************************************************************)
(* C11                                                                     *)
(***************************************************************************)
\* the index in which every failing query answers with no matches instead
EmptiedFailures(idx) ==
    [ns \in Namespaces |->
        IF idx[ns].query_raises
        THEN [vectors |-> <<>>, query_raises |-> FALSE]
        ELSE idx[ns]]

QueriesOf(ns) == {i \in DOMAIN calls : calls[i].fn = "query" /\ calls[i].namespace = ns}

Raising == {ns \in namespaces_to_search : index[ns].query_raises}

\* C11: when the query of a selected namespace raises, every selected
\* namespace is still queried (once each), the returned list is the one the
\* same fetch gives when the failing namespaces answer with no matches, and
\* every candidate of the namespaces that answered is in the pool.
C11_FailureIsolation ==
    pc = "searched" =>
        /\ \A ns \in namespaces_to_search : Cardinality(QueriesOf(ns)) = 1
        /\ results = fetch_and_merge(namespaces_to_search, fetch_order,
                                     EmptiedFailures(index), max_results,
                                     results_per_namespace).results
        /\ \A ns \in namespaces_to_search \ Raising :
               Ids(query_matches(index, ns)) \subseteq Ids(all_matches)

\* a query raised between two namespaces that answered, and the returned
\* list holds matches fetched before the failure and matches fetched after it
C11_Witness ==
    /\ pc = "searched"
    /\ \E i, j, k \in DOMAIN fetch_order :
           /\ i < j /\ j < k
           /\ index[fetch_order[j]].query_raises
           /\ index[fetch_order[j]].vectors # <<>>
           /\ \E m \in DOMAIN results : results[m].namespace = fetch_order[i]
           /\ \E m \in DOMAIN results : results[m].namespace = fetch_order[k]

(***************************************************************************)
(* C12                                                                     *)
(***************************************************************************)
ReturnExits == {"no_index", "no_embedding", "error", "searched"}

IsList(x) == DOMAIN x = 1..Len(x)

\* C12: whatever describe_index_stats, encode, the queries and the rest of
\* the body do (return or raise), search_regulations leaves through a return
\* and never through an exception, and what it returned is a list.
C12_NeverRaises ==
    /\ pc # "raised"
    /\ pc = "request" =>
           \A stats_raises \in BOOLEAN, encode_raises \in BOOLEAN,
              dim \in EncodeDims, body_raises \in BOOLEAN :
               search_exit(stats_raises, total_vectors(index), encode_raises,
                           dim, body_raises) \in ReturnExits
    /\ pc \in ReturnExits => IsList(results)
    /\ (pc \in ReturnExits /\ (faults.stats \/ faults.encode \/ faults.body)) =>
           results = <<>>

\* the body raised outside the guarded calls and the empty list was returned
C12_Witness ==
    /\ pc = "error"
    /\ faults.body
    /\ results = <<>>
    /\ total_vectors(index) > 0

(***************************************************************************)
(* C13                                                                     *)
(***************************************************************************)
Answering == {ns \in namespaces_to_search : Answer(ns) # <<>>}

\* C13: a search that got past the index check (store not empty) and the
\* embedding check (768 components) and ran its fetch loop returns a
\* non-empty list as soon as one selected namespace answers with a match,
\* however many of the others raise or answer with nothing; it returns the
\* empty list exactly when every selected namespace raised or returned no
\* match.
C13_NonEmptyIfAnyAnswers ==
    pc = "searched" =>
        /\ total_vectors(index) > 0
        /\ query_embedding = EmbeddingDim
        /\ (Answering # {}) => results # <<>>
        /\ (results = <<>>) => \A ns \in namespaces_to_search :
                                   index[ns].query_raises \/ query_matches(index, ns) = <<>>

\* of the selected namespaces two raised, one returned nothing and the
\* others returned matches, and the list is not empty
C13_Witness ==
    /\ pc = "searched"
    /\ Cardinality(Raising) = 2
    /\ Cardinality(Answering) = Cardinality(namespaces_to_search) - 3
    /\ \E ns \in namespaces_to_search : index[ns].query_raises
    /\ \E ns \in namespaces_to_search :
           ~index[ns].query_raises /\ index[ns].vectors = <<>>
    /\ results # <<>>

(***************************************************************************)
(* C14                                                                     *)
(***************************************************************************)
\* C14: when describe_index_stats raised or reported no vector at all, the
\* search returned the empty list and describe_index_stats is the only call
\* it made: no encode, no index.query.
C14_IndexCheckFirst ==
    (pc # "request" /\ (faults.stats \/ total_vectors(index) = 0)) =>
        /\ results = <<>>
        /\ calls = <<StatsCall>>

\* describe_index_stats raised although the store holds vectors
C14_Witness ==
    /\ pc = "no_index"
    /\ faults.stats
    /\ total_vectors(index) > 0
    /\ calls = <<StatsCall>>

(***************************************************************************)
(* C15                                                                     *)
(***************************************************************************)
Called(fn) == {i \in DOMAIN calls : calls[i].fn = fn}

\* C15: when the embedder was called and raised, or returned a list that is
\* empty or not of 768 components, the search returned the empty list and
\* issued no index.query; every index.query issued carried a vector of 768
\* components.
C15_EmbeddingCheck ==
    /\ (/\ Called("encode") # {}
        /\ faults.encode \/ query_embedding = 0 \/ query_embedding # EmbeddingDim) =>
           /\ results = <<>>
           /\ Called("query") = {}
    /\ \A i \in Called("query") : calls[i].dim = EmbeddingDim

\* the embedder returned a vector of another dimension and the search stopped
C15_Witness ==
    /\ pc = "no_embedding"
    /\ ~faults.encode
    /\ query_embedding # 0
    /\ query_embedding # EmbeddingDim
    /\ Called("query") = {}

(***************************************************************************)
(* C16, C17                                                                *)
(***************************************************************************)
\* the display name and the aliases of a namespace
NamesOf(ns) ==
    {namespace_docs[ns].display_name} \cup Range(namespace_docs[ns].variations)

\* w occurs in q, case ignored, as a whole word: not preceded and not
\* followed by a letter, a digit or an underscore
WholeWordIn(q, w) ==
    \E i \in 1..Len(q) :
        /\ i + Len(w) - 1 <= Len(q)
        /\ \A k \in 1..Len(w) : LowerChar(q[i + k - 1]) = LowerChar(w[k])
        /\ (i = 1 \/ ~IsWordChar(q[i - 1]))
        /\ (i + Len(w) - 1 = Len(q) \/ ~IsWordChar(q[i + Len(w)]))

\* w occurs in q, case ignored, anywhere
OccursIn(q, w) ==
    \E i \in 1..Len(q) :
        /\ i + Len(w) - 1 <= Len(q)
        /\ \A k \in 1..Len(w) : LowerChar(q[i + k - 1]) = LowerChar(w[k])

Mentioned(q) == {ns \in Namespaces : \E w \in NamesOf(ns) : WholeWordIn(q, w)}

\* C16: a query in which no display name and no alias matches is searched
\* in all five namespaces, and the searched set is never empty.
C16_FailOpen ==
    pc = "selected" =>
        /\ Cardinality(Namespaces) = 5
        /\ (Mentioned(query) = {}) => namespaces_to_search = Namespaces
        /\ namespaces_to_search # {}

\* nothing matches a query that holds aliases only inside longer words
C16_Witness ==
    /\ pc = "selected"
    /\ Mentioned(query) = {}
    /\ \E ns \in Namespaces : \E w \in NamesOf(ns) : OccursIn(query, w)
    /\ namespaces_to_search = Namespaces

\* C17: when some namespace matches, the searched set is exactly the set of
\* namespaces whose display name or alias occurs in the query as a
\* case-insensitive whole word; an alias that occurs only inside a longer
\* word selects nothing.
C17_WholeWordSelection ==
    (pc = "selected" /\ Mentioned(query) # {}) =>
        \A ns \in Namespaces :
            (ns \in namespaces_to_search) <=> (\E w \in NamesOf(ns) : WholeWordIn(query, w))

\* one namespace is selected by an alias written in another case while
\* another, whose alias occurs only inside a longer word, is not
C17_Witness ==
    /\ pc = "selected"
    /\ \E ns \in namespaces_to_search :
           \E w \in NamesOf(ns) : WholeWordIn(query, w) /\ ~Contains(query, w)
    /\ \E ns \in Namespaces \ namespaces_to_search :
           \E w \in NamesOf(ns) : OccursIn(query, w)

(***************************************************************************)
(* C1                                                                      *)
(***************************************************************************)
\* positions where a whitespace-delimited word starts
WordStarts(q) ==
    {i \in DOMAIN q : ~IsSpace(q[i]) /\ (i = 1 \/ IsSpace(q[i - 1]))}

\* last position of the word that starts at i
WordEnd(q, i) ==
    CHOOSE j \in i..Len(q) :
        /\ \A k \in i..j : ~IsSpace(q[k])
        /\ (j = Len(q) \/ IsSpace(q[j + 1]))

WordCount(q) == Cardinality(WordStarts(q))

KeywordCount(q) ==
    Cardinality({i \in WordStarts(q) : lower(SubSeq(q, i, WordEnd(q, i))) \in keywords})

HasAndOrComma(q) ==
    \/ \E i \in DOMAIN q : q[i] = ","
    \/ \E i \in DOMAIN q : i + 2 <= Len(q) /\ q[i] = "a" /\ q[i + 1] = "n" /\ q[i + 2] = "d"

StartsHowWhy(q) ==
    /\ Len(q) >= 3
    /\ <<LowerChar(q[1]), LowerChar(q[2]), LowerChar(q[3])>> \in {StrHow, StrWhy}

\* C1: the score of every query is floor(W/5) + K + 2*A + 3*H (W words,
\* K keyword words, A = "and"/comma present, H = starts with how/why), each
\* rule adding its amount independently; it is never negative and the empty
\* string scores 0.
C1_ScoreFormula ==
    pc = "scored" =>
        /\ complexity_score =
               (WordCount(query) \div 5) + KeywordCount(query)
               + (IF HasAndOrComma(query) THEN 2 ELSE 0)
               + (IF StartsHowWhy(query) THEN 3 ELSE 0)
        /\ complexity_score >= 0
        /\ (query = <<>> => complexity_score = 0)

\* a scored query in which all four rules contribute at once
C1_Witness ==
    /\ pc = "scored"
    /\ WordCount(query) >= 5
    /\ KeywordCount(query) >= 1
    /\ HasAndOrComma(query)
    /\ StartsHowWhy(query)
    /\ complexity_score >= 7

(***************************************************************************)
(* C18                                                                     *)
(***************************************************************************)
\* the band of the tier of score s holds <<max_results, floor>>
InBand(s, params) ==
    IF s < 3 THEN params[1] \in 5..7 /\ params[2] \in 0..1
    ELSE IF s < 6 THEN params[1] \in 8..12 /\ params[2] \in 0..2
    ELSE params[1] \in 12..15 /\ params[2] \in 0..3

\* C18: for every score the parameters lie in the band of its tier (Low
\* 5..7 and 0..1, Medium 8..12 and 0..2, High 12..15 and 0..3), max_results
\* does not decrease when the score grows, and the parameters chosen for a
\* scored query lie in the band of its score.
C18_ParamsInBand ==
    /\ \A s \in 0..MaxComplexity : InBand(s, determine_search_params(s))
    /\ \A s, t \in 0..MaxComplexity :
           s <= t => determine_search_params(s)[1] <= determine_search_params(t)[1]
    /\ pc = "parametrised" =>
           InBand(complexity_score, <<max_results, results_per_namespace>>)

\* parameters were chosen for a query scoring exactly the Medium threshold
C18_Witness ==
    /\ pc = "parametrised"
    /\ complexity_score = 3
    /\ max_results = 12

(***************************************************************************)
(* C19                                                                     *)
(***************************************************************************)
\* C19: the score shown for a prompt is the score the search chose
\* max_results with, and whenever references are shown they are grouped
\* exactly when that score is at least 3 (max_results 12 or 15, label not
\* Low) and flat exactly when it is below 3 (max_results 7, label Low).
C19_TiersAgree ==
    pc = "displayed" =>
        /\ max_results # 0 => display.complexity_score = complexity_score
        /\ (display.label = "Low") <=> (display.complexity_score < 3)
        /\ display.references # "none" =>
               /\ display.references \in {"grouped", "flat"}
               /\ (display.references = "grouped") <=>
                      (complexity_score >= 3 /\ max_results \in {12, 15}
                       /\ display.label # "Low")
               /\ (display.references = "flat") <=>
                      (complexity_score < 3 /\ max_results = 7
                       /\ display.label = "Low")

\* references were shown grouped for a Medium prompt
C19_Witness ==
    /\ pc = "displayed"
    /\ display.label = "Medium"
    /\ display.references = "grouped"
    /\ max_results = 12

(***************************************************************************)
(* C20                                                                     *)
(***************************************************************************)
StrHowSpace == <<"h", "o", "w", " ">>

\* C20: for every X that does not start with "how" or "why" in any case,
\* the score of "how " + X is at least the score of X plus 3.
C20_HowPrefix ==
    (pc = "scored" /\ ~StartsHowWhy(query)) =>
        calculate_complexity_score(StrHowSpace \o query) >= complexity_score + 3

\* an X with a score of its own for which the prefix adds more than 3,
\* its word completing a group of five
C20_Witness ==
    /\ pc = "scored"
    /\ ~StartsHowWhy(query)
    /\ complexity_score >= 2
    /\ WordCount(query) % 5 = 4
    /\ calculate_complexity_score(StrHowSpace \o query) = complexity_score + 4

(***************************************************************************)
(* C21                                                                     *)
(***************************************************************************)
\* C21 as stated: "Compare the audit frameworks across jurisdictions" scores
\* 4 (1 for its words, 3 for keywords), Medium, max_results in 8..12, grouped.
C21_CompareScoresFour ==
    (pc = "parametrised" /\ query = CompareQuery) =>
        /\ complexity_score = 4
        /\ KeywordCount(query) = 3
        /\ format_complexity_display(complexity_score) = "Medium"
        /\ max_results \in 8..12
        /\ display_references_by_complexity(complexity_score) = "grouped"

\* C21 as amended: the query scores 3, 1 for its six words and 2 for the
\* keywords "compare" and "audit" ("frameworks" is not the keyword
\* "framework"), nothing for and/comma and nothing for how/why; that is the
\* Medium tier, max_results 12 (in 8..12), grouped display.
C21_CompareScoresThree ==
    (pc = "parametrised" /\ query = CompareQuery) =>
        /\ WordCount(query) = 6
        /\ KeywordCount(query) = 2
        /\ ~HasAndOrComma(query)
        /\ ~StartsHowWhy(query)
        /\ complexity_score = 3
        /\ format_complexity_display(complexity_score) = "Medium"
        /\ max_results = 12
        /\ max_results \in 8..12
        /\ display_references_by_complexity(complexity_score) = "grouped"

\* the query was scored and its parameters chosen
C21_Witness ==
    /\ pc = "parametrised"
    /\ query = CompareQuery
    /\ complexity_score = 3

(***************************************************************************)
(* C22                                                                     *)
(***************************************************************************)
\* C22: "What is model risk?" (4 words, no keyword, no and/comma, not a
\* how/why question) scores 0, the Low tier, max_results in 5..7, flat
\* display.
C22_ModelRiskScoresZero ==
    (pc = "parametrised" /\ query = ModelRiskQuery) =>
        /\ WordCount(query) = 4
        /\ KeywordCount(query) = 0
        /\ ~HasAndOrComma(query)
        /\ ~StartsHowWhy(query)
        /\ complexity_score = 0
        /\ format_complexity_display(complexity_score) = "Low"
        /\ max_results \in 5..7
        /\ display_references_by_complexity(complexity_score) = "flat"

\* the query was scored and its parameters chosen
C22_Witness ==
    /\ pc = "parametrised"
    /\ query = ModelRiskQuery
    /\ max_results = 7

(***************************************************************************)
(* C23                                                                     *)
(***************************************************************************)
\* C23: for every embedding shorter than the target (length 0 included)
\* pad_embedding returns, without raising, a list of exactly target values
\* that begins with the original values and whose value at every index i
\* (from 0) is original[i mod d].
C23_PadsCyclically ==
    (pc = "padded" /\ Len(embedding) < target_dim) =>
        /\ ~padded.raised
        /\ Len(padded.value) = target_dim
        /\ \A i \in 1..Len(embedding) : padded.value[i] = embedding[i]
        /\ \A i \in 1..Len(padded.value) :
               padded.value[i] = embedding[((i - 1) % Len(embedding)) + 1]

(***************************************************************************)
(* C24                                                                     *)
(***************************************************************************)
\* C24: an embedding at least as long as the target comes back as its first
\* target values; padding what pad_embedding returned changes nothing; and
\* what it returns for the target 768 has 768 values.
C24_CutsAndIdempotent ==
    pc = "padded" =>
        /\ Len(embedding) >= target_dim =>
               /\ ~padded.raised
               /\ Len(padded.value) = target_dim
               /\ \A i \in 1..target_dim : padded.value[i] = embedding[i]
        /\ ~padded.raised =>
               /\ pad_embedding(padded.value, target_dim) = padded
               /\ target_dim = TARGET_DIMENSION => Len(padded.value) = 768

\* an embedding longer than the target was cut
C24_Witness ==
    /\ pc = "padded"
    /\ target_dim >= 2
    /\ Len(embedding) > target_dim
    /\ Len(padded.value) = target_dim
    /\ \E i \in 1..target_dim : embedding[i] # embedding[Len(embedding)]

(***************************************************************************)
(* C25                                                                     *)
(***************************************************************************)
\* C25: the answer-generation model is called exactly when the search
\* returned a non-empty list; after an empty list (no results or a failed
\* retrieval) it is not called, no references are shown, and the message
\* shown is the fixed fallback text.
C25_ModelCalledIffResults ==
    pc = "displayed" =>
        /\ (Called("chat.completions.create") # {}) <=> (results # <<>>)
        /\ Cardinality(Called("chat.completions.create")) <= 1
        /\ results = <<>> =>
               /\ display.message = "fallback"
               /\ display.references = "none"

\* the retrieval failed on its embedding and the fallback text was shown
C25_Witness ==
    /\ pc = "displayed"
    /\ faults.encode
    /\ results = <<>>
    /\ Called("chat.completions.create") = {}
    /\ display.message = "fallback"

(***************************************************************************)
(* C26                                                                     *)
(***************************************************************************)
QueryCalls == SelectSeq(calls, LAMBDA c : c.fn = "query")

\* C26: a search that passed the index and embedding checks issues its
\* index.query calls one after the other in iteration order, exactly one for
\* each selected namespace and none for another, each with top_k = 20 (more
\* than max_results, which is 7, 12 or 15) and with the one vector encoded
\* for the request; no further query follows when the pool is smaller than
\* max_results.
C26_OneQueryPerNamespace ==
    pc = "searched" =>
        /\ Len(QueryCalls) = Cardinality(namespaces_to_search)
        /\ [i \in DOMAIN QueryCalls |-> QueryCalls[i].namespace] = fetch_order
        /\ \A ns \in Namespaces :
               Cardinality(QueriesOf(ns)) = IF ns \in namespaces_to_search THEN 1 ELSE 0
        /\ Cardinality(Called("encode")) = 1
        /\ max_results \in {7, 12, 15}
        /\ \A i \in DOMAIN QueryCalls :
               /\ QueryCalls[i].top_k = 20
               /\ QueryCalls[i].top_k > max_results
               /\ QueryCalls[i].dim = query_embedding

\* two of five namespaces were selected, one of their queries raised and the
\* pool stayed smaller than max_results
C26_Witness ==
    /\ pc = "searched"
    /\ Cardinality(namespaces_to_search) = 2
    /\ Raising # {}
    /\ Len(all_matches) < max_results
    /\ Len(QueryCalls) = 2

(***************************************************************************)
(* C27                                                                     *)
(***************************************************************************)
\* the calls made for the batch at offset start
CallsFor(start) == {k \in DOMAIN upsert_calls : upsert_calls[k].start = start}

ReturnedFor(start) == {k \in CallsFor(start) : ~upsert_calls[k].raised}

BatchOffsets == {start \in 0..(Len(vectors) - 1) : start % batch_size = 0}

\* C27: every index.upsert call carries one batch, the vectors from a
\* multiple of batch_size up to batch_size further, and the calls follow
\* input order; a batch is called at most MAX_RETRIES (3) times, again only
\* after a call that raised and never after a call that returned; a later
\* batch is called only after the one before returned; after three raises
\* the exception leaves upsert_vectors and nothing more is submitted; and
\* when the loop completes every vector was in exactly one call that
\* returned.
C27_BatchesAndRetries ==
    /\ \A k \in DOMAIN upsert_calls :
           LET c == upsert_calls[k]
           IN  /\ c.start \in BatchOffsets
               /\ Len(c.batch) <= batch_size
               /\ c.batch = [j \in 1..Min(batch_size, Len(vectors) - c.start) |->
                                vectors[c.start + j]]
               /\ k > 1 => upsert_calls[k - 1].start <= c.start
               /\ (k > 1 /\ upsert_calls[k - 1].start = c.start) =>
                      upsert_calls[k - 1].raised
               /\ (k > 1 /\ upsert_calls[k - 1].start < c.start) =>
                      /\ ~upsert_calls[k - 1].raised
                      /\ upsert_calls[k - 1].start + batch_size = c.start
               /\ k = 1 => c.start = 0
    /\ \A start \in BatchOffsets :
           /\ Cardinality(CallsFor(start)) <= 3
           /\ Cardinality(ReturnedFor(start)) <= 1
    /\ (\E start \in BatchOffsets :
            Cardinality(CallsFor(start)) = 3 /\ ReturnedFor(start) = {}) =>
           /\ pc = "upsert_raised"
           /\ upsert_calls[Len(upsert_calls)].raised
    /\ pc = "upserted" =>
           \A v \in DOMAIN vectors :
               Cardinality({k \in DOMAIN upsert_calls :
                               /\ ~upsert_calls[k].raised
                               /\ \E j \in DOMAIN upsert_calls[k].batch :
                                      upsert_calls[k].batch[j] = vectors[v]}) = 1

\* a batch went through on its third attempt with none of its vectors
\* verified, the next batch followed, and the last batch was short
C27_Witness ==
    /\ pc = "upserted"
    /\ successful_uploads < Len(vectors)
    /\ Cardinality(CallsFor(0)) = 3
    /\ Cardinality(ReturnedFor(0)) = 1
    /\ Len(upsert_calls) >= 5
    /\ Len(upsert_calls[Len(upsert_calls)].batch) < batch_size

(***************************************************************************)
(* C28                                                                     *)
(***************************************************************************)
\* process_json_file is past its own steps
Processed ==
    pc \notin {"ingest_request", "ingest_no_valid_chunks", "ingest_encode_raised"}

ValidIndexes ==
    SelectSeq([k \in DOMAIN json_chunks |-> k],
              LAMBDA k : validate_chunk(json_chunks[k]))

\* no vector handed to upsert_vectors carries the embedding of another text
\* or stems from an invalid chunk
NoMispairedVector ==
    /\ \A k \in DOMAIN vectors : vectors[k].values = encode(vectors[k].text)
    /\ \A k \in DOMAIN vectors : validate_chunk(json_chunks[vectors[k].id])

\* C28: for every file with a valid chunk, once the embeddings are made,
\* every vector handed to upsert_vectors has as values the embedding of its
\* own metadata text, and the invalid chunks are skipped: the vectors are
\* those of the valid chunks, one each and none for an invalid chunk,
\* wherever the invalid chunks stand in the file.
C28_PairsAndSkips ==
    Processed =>
        /\ NoMispairedVector
        /\ [k \in DOMAIN vectors |-> vectors[k].id] = ValidIndexes

(***************************************************************************)
(* C29                                                                     *)
(***************************************************************************)
\* the history alternates user, assistant from a user message on, and its
\* last pair is the prompt and the answer or the fallback of the last run
Alternating ==
    /\ Len(messages) % 2 = 0
    /\ \A k \in DOMAIN messages :
           messages[k].role = IF k % 2 = 1 THEN "user" ELSE "assistant"
    /\ messages # <<>> =>
           /\ messages[Len(messages) - 1].content = query
           /\ messages[Len(messages)].content =
                  IF results = <<>> \/ gpt_response \in {None, ""}
                  THEN FallbackText
                  ELSE gpt_response

\* a run with a prompt adds two entries and leaves the earlier ones as
\* they were
AppendsTwo ==
    /\ Len(messages') = Len(messages) + 2
    /\ SubSeq(messages', 1, Len(messages)) = messages

\* C29: every prompt appends exactly two entries, the user message and then
\* one assistant message, which is the answer, or the fixed fallback text
\* when the results are empty or no answer was produced; the history always
\* has even length and alternates user, assistant; earlier entries are
\* neither modified nor removed.
C29_HistoryAlternates == []Alternating /\ [][AppendsTwo]_vars

\* a second prompt was answered with the fallback because the model
\* returned an empty text, after a first one that was answered
C29_Witness ==
    /\ Len(messages) = 4
    /\ messages[2].content = "answer"
    /\ results # <<>>
    /\ gpt_response = ""
    /\ messages[4].content = FallbackText

(***************************************************************************)
(* C30                                                                     *)
(***************************************************************************)
\* C30: every chunk create_chunks emits has a token_count of at most 300,
\* and a chunk of accumulated sentences, emitted when the next sentence does
\* not fit, at the end of the page or flushed before a sentence above 300
\* tokens, has a token_count of at least 50.
C30_TokenBounds ==
    pc = "chunked" =>
        \A k \in DOMAIN chunks :
            /\ chunks[k].token_count <= 300
            /\ chunks[k].origin \in {"accumulated", "flush"} =>
                   chunks[k].token_count >= 50

\* what the code does keep: the chunks of the two accumulation branches
\* stay between 50 and 300 tokens
AccumulatedWithinBounds ==
    \A k \in DOMAIN chunks :
        chunks[k].origin = "accumulated" =>
            chunks[k].token_count >= 50 /\ chunks[k].token_count <= 300

====
